---- MODULE Spec2Model ----
(***************************************************************************)
(* Model of the sales-lead conversion pipeline:                            *)
(*   ml_model/01_generate_dataset.py    (the synthetic label generator)    *)
(*   ml_model/02_train_evaluate_model.py (the trainer / evaluator)         *)
(*                                                                         *)
(* Probabilities are fixed-point integers in millionths (PROB_UNIT).       *)
(* Ratings are in tenths, exactly as .round(1) leaves them.                *)
(***************************************************************************)
EXTENDS Integers, Sequences, FiniteSets, TLC

VARIABLES
    \* ---- 01_generate_dataset.py, one program run after another ----
    gpc,                     \* position inside generate_synthetic_data
    rng,                     \* state of the process-wide numpy random stream
    df,                      \* the data frame being built (sequence of leads)
    conversion_probability,  \* the per-record probability array
    output_file,             \* contents of synthetic_sales_leads.csv
    runs,                    \* datasets written by the completed runs, in order
    \* ---- the probability model applied to one lead of a batch ----
    lpc,                     \* position: sampled, effects, noised, clipped, drawn
    lead,                    \* the lead's features
    deal_max, urt_max,       \* the batch maxima the lead is normalised by
    lead_effects,            \* probability after the additive effects
    lead_noised,             \* probability after add_noise
    lead_clipped,            \* probability after np.clip
    lead_converted,          \* the label
    \* ---- 02_train_evaluate_model.py, one run of main ----
    tpc,                     \* position inside main
    train_df,                \* the data frame load_dataset returned
    train, test,             \* the partitions of train_test_split (rows with label)
    models,                  \* the keys of the models dict, in iteration order
    processed,               \* number of completed iterations of the model loop
    preprocessor,            \* fitted state of the one shared ColumnTransformer
    classifiers,             \* fitted state of each pipeline's classifier
    metrics_output,          \* the list of metric rows
    roc_plot_data,           \* the dict of ROC entries, in insertion order
    feature_importance_df,   \* the table plot_feature_importance returned
    written,                 \* the artifacts that exist on disk
    files,                   \* what each written artifact holds
    error,                   \* the exception that ended the run
    \* ---- evaluate_model on given labels and predictions ----
    epc,                     \* position: called, returned, raised
    y_test,                  \* the test labels
    y_pred,                  \* model.predict(X_test)
    y_prob,                  \* model.predict_proba(X_test)[:, 1], in thousandths
    metrics                  \* the metrics dict evaluate_model returned

gen_vars  == <<gpc, rng, df, conversion_probability, output_file, runs>>
lead_vars == <<lpc, lead, deal_max, urt_max, lead_effects, lead_noised,
               lead_clipped, lead_converted>>
train_vars == <<tpc, train_df, train, test, models, processed, preprocessor, classifiers,
                metrics_output, roc_plot_data, feature_importance_df, written,
                files, error>>
eval_vars == <<epc, y_test, y_pred, y_prob, metrics>>
vars == <<gen_vars, lead_vars, train_vars, eval_vars>>

-----------------------------------------------------------------------------
(* Bounds of the model *)

\* number of records per generated batch (the program uses 10000)
NUM_LEADS == 3
\* number of distinct states the operating system's entropy can seed the stream with
SeedSpace == 12
\* number of generator program runs that are followed
MaxRuns == 2
\* number of rows of the datasets the trainer is run on
NumRows == 6
\* number of test rows evaluate_model is applied to on its own
EvalRows == 3

-----------------------------------------------------------------------------
(* Fixed point *)

PROB_UNIT == 1000 * 1000

None == "none"

\* a file that does not exist, and a csv file holding rows
Absent == [exists |-> FALSE, rows |-> <<>>]
CsvFile(rows) == [exists |-> TRUE, rows |-> rows]

Abs(x) == IF x < 0 THEN -x ELSE x

RECURSIVE SeqMax(_)
SeqMax(s) ==
    IF Len(s) = 1 THEN s[1]
    ELSE LET m == SeqMax(Tail(s)) IN IF s[1] > m THEN s[1] ELSE m

-----------------------------------------------------------------------------
(* 01_generate_dataset.py : configuration *)

BASE_CONVERSION_RATE == PROB_UNIT \div 10
BUSINESS_TYPES == <<"Restaurant", "Retail", "Services">>
PRIORITY_LEVELS == <<"Low", "Medium", "High">>

-----------------------------------------------------------------------------
(* The process-wide random stream (np.random).  The stream is a             *)
(* deterministic generator: its whole output is a function of its state.    *)

RNG_M == 2 ^ 12

RngStep(s) == (1229 * s + 1) % RNG_M

RECURSIVE RngSkip(_, _)
RngSkip(s, k) == IF k = 0 THEN s ELSE RngSkip(RngStep(s), k - 1)

\* the k-th raw output after state s (k >= 1), in 0 .. RNG_M - 1
RngRaw(s, k) == RngSkip(s, k)

\* np.random.choice(values, p): inverse-cdf lookup; cdf in percent
np_choice(values, cdf, r) ==
    values[CHOOSE i \in 1..Len(values) :
              /\ r * 100 < cdf[i] * RNG_M
              /\ \A j \in 1..(i - 1) : r * 100 >= cdf[j] * RNG_M]

\* np.random.uniform(3.0, 5.0).round(1), in tenths
np_uniform_rating(r) == 30 + (40 * r + RNG_M) \div (2 * RNG_M)

\* np.random.randint(lo, hi): lo <= value < hi
np_randint(lo, hi, r) == lo + (r * (hi - lo)) \div RNG_M

\* standard normal deviates, in thousandths (the octile midpoints)
NormalTable == <<-1534, -887, -489, -157, 157, 489, 887, 1534>>

np_standard_normal(r) == NormalTable[(r * 8) \div RNG_M + 1]

\* np.random.lognormal(mean=8.5, sigma=0.8).round(0): exp(8.5 + 0.8 z)
LognormalTable == <<1441, 2417, 3323, 4335, 5572, 7268, 9993, 16768>>

np_lognormal(r) == LognormalTable[(r * 8) \div RNG_M + 1]

\* np.random.normal(0, noise_level), in millionths
np_normal(noise_level, r) == (np_standard_normal(r) * noise_level) \div 1000

\* np.random.rand(): uniform on [0, 1), in millionths
np_rand(r) == r * (PROB_UNIT \div RNG_M)

-----------------------------------------------------------------------------
(* generate_synthetic_data: the additive effects model, per record *)

DealEffect(l, dmax) == ((l.deal_value * 20000) \div dmax) * 10

RatingEffect(l) == (l.rating * (PROB_UNIT \div 10)) \div 50

ReviewEffect(l, umax) == (l.user_ratings_total * 50000) \div umax

DocumentEffect(l) == (l.documents_verified_count * 250000) \div 6

priority_map_low_015(p) ==
    CASE p = "Low" -> -150000
      [] p = "Medium" -> 50000
      [] p = "High" -> 150000

priority_map(p) ==
    CASE p = "Low" -> -50000
      [] p = "Medium" -> 50000
      [] p = "High" -> 150000

BusinessBonus(l) == IF l.business_type = "Restaurant" THEN 50000 ELSE 0

PipelinePenalty(l) == (Abs(l.time_in_pipeline - 45) * 50000) \div 45

Effects(l, dmax, umax) ==
    BASE_CONVERSION_RATE
      + DealEffect(l, dmax)
      + RatingEffect(l)
      + ReviewEffect(l, umax)
      + DocumentEffect(l)
      + priority_map(l.priority)
      + BusinessBonus(l)
      - PipelinePenalty(l)

CLIP_LO == PROB_UNIT \div 100
CLIP_HI == 99 * (PROB_UNIT \div 100)

np_clip_no_upper(x, lo, hi) == IF x < lo THEN lo ELSE x

np_clip(x, lo, hi) == IF x < lo THEN lo ELSE IF x > hi THEN hi ELSE x

\* (np.random.rand(N) < conversion_probability).astype(int), one element
Bernoulli(u, p) == IF u < p THEN 1 ELSE 0

\* add_noise(data, noise_level): data + np.random.normal(0, noise_level, shape)
add_noise(data, noise_level, s) ==
    [i \in 1..Len(data) |-> data[i] + np_normal(noise_level, RngRaw(s, i))]

-----------------------------------------------------------------------------
(* generate_synthetic_data as a run of the standalone program *)

Seeds == 0..(SeedSpace - 1)

\* the eight feature columns, drawn column after column from the stream
BaseFeatures(s) ==
    LET N == NUM_LEADS
        col(c, i) == RngRaw(s, c * N + i)
    IN [i \in 1..N |->
          [business_type |-> np_choice(BUSINESS_TYPES, <<50, 80, 100>>, col(0, i)),
           rating |-> np_uniform_rating(col(1, i)),
           user_ratings_total |-> np_randint(10, 1000, col(2, i)),
           deal_value |-> np_lognormal(col(3, i)),
           priority |-> np_choice(PRIORITY_LEVELS, <<30, 80, 100>>, col(4, i)),
           time_in_pipeline |-> np_randint(1, 90, col(5, i)),
           documents_verified_count |-> np_randint(0, 7, col(6, i)),
           contacts_count |-> np_randint(1, 5, col(7, i))]]

Column(frame, name) == [i \in 1..Len(frame) |-> frame[i][name]]

\* The program starts: nothing in it seeds np.random, so the stream starts
\* in a state taken from the operating system's entropy.
GenStart ==
    /\ gpc = "idle"
    /\ Len(runs) < MaxRuns
    /\ \E seed \in Seeds : rng' = seed
    /\ gpc' = "features"
    /\ df' = <<>>
    /\ conversion_probability' = <<>>
    /\ UNCHANGED <<output_file, runs>>

GenerateBaseFeatures ==
    /\ gpc = "features"
    /\ df' = BaseFeatures(rng)
    /\ rng' = RngSkip(rng, 8 * NUM_LEADS)
    /\ gpc' = "effects"
    /\ UNCHANGED <<conversion_probability, output_file, runs>>

EngineerProbability ==
    /\ gpc = "effects"
    /\ conversion_probability' =
         [i \in 1..Len(df) |->
            Effects(df[i], SeqMax(Column(df, "deal_value")),
                    SeqMax(Column(df, "user_ratings_total")))]
    /\ gpc' = "noise"
    /\ UNCHANGED <<rng, df, output_file, runs>>

AddNoise ==
    /\ gpc = "noise"
    /\ conversion_probability' = add_noise(conversion_probability, 100000, rng)
    /\ rng' = RngSkip(rng, NUM_LEADS)
    /\ gpc' = "clip"
    /\ UNCHANGED <<df, output_file, runs>>

ClipProbability ==
    /\ gpc = "clip"
    /\ conversion_probability' =
         [i \in 1..Len(df) |-> np_clip(conversion_probability[i], CLIP_LO, CLIP_HI)]
    /\ gpc' = "draw"
    /\ UNCHANGED <<rng, df, output_file, runs>>

DrawConverted ==
    /\ gpc = "draw"
    /\ df' = [i \in 1..Len(df) |->
                [f \in (DOMAIN df[i]) \cup {"converted"} |->
                   IF f = "converted"
                   THEN Bernoulli(np_rand(RngRaw(rng, i)), conversion_probability[i])
                   ELSE df[i][f]]]
    /\ rng' = RngSkip(rng, NUM_LEADS)
    /\ gpc' = "save"
    /\ UNCHANGED <<conversion_probability, output_file, runs>>

SaveCsv ==
    /\ gpc = "save"
    /\ output_file' = CsvFile(df)
    /\ runs' = Append(runs, df)
    /\ gpc' = "idle"
    /\ UNCHANGED <<rng, df, conversion_probability>>

-----------------------------------------------------------------------------
(* The probability model on one lead of a batch, for every feature value *)

RatingValues == {30, 40, 50}
ReviewValues == {10, 999}
DealValues == {0, 1441, 16768}
TimeValues == {1, 45, 89}
DocumentValues == {0, 3, 6}
NoiseValues == {-400000, -100000, 0, 100000, 400000}
UniformValues == {0, 500000, 999999}

Range(s) == {s[i] : i \in DOMAIN s}

LeadValues ==
    [business_type : Range(BUSINESS_TYPES),
     rating : RatingValues,
     user_ratings_total : ReviewValues,
     deal_value : DealValues,
     priority : Range(PRIORITY_LEVELS),
     time_in_pipeline : TimeValues,
     documents_verified_count : DocumentValues,
     contacts_count : {1}]

LeadEffects ==
    /\ lpc = "sampled"
    /\ lead_effects' = Effects(lead, deal_max, urt_max)
    /\ lpc' = "effects"
    /\ UNCHANGED <<lead, deal_max, urt_max, lead_noised, lead_clipped, lead_converted>>

LeadNoise ==
    /\ lpc = "effects"
    /\ \E n \in NoiseValues : lead_noised' = lead_effects + n
    /\ lpc' = "noised"
    /\ UNCHANGED <<lead, deal_max, urt_max, lead_effects, lead_clipped, lead_converted>>

LeadClip ==
    /\ lpc = "noised"
    /\ lead_clipped' = np_clip(lead_noised, CLIP_LO, CLIP_HI)
    /\ lpc' = "clipped"
    /\ UNCHANGED <<lead, deal_max, urt_max, lead_effects, lead_noised, lead_converted>>

LeadDraw ==
    /\ lpc = "clipped"
    /\ \E u \in UniformValues : lead_converted' = Bernoulli(u, lead_clipped)
    /\ lpc' = "drawn"
    /\ UNCHANGED <<lead, deal_max, urt_max, lead_effects, lead_noised, lead_clipped>>

-----------------------------------------------------------------------------
(* 02_train_evaluate_model.py : configuration *)

RANDOM_STATE == 42
\* TEST_SIZE = 0.2, in percent
TEST_SIZE == 20

NUMERIC_FEATURES ==
    <<"rating", "user_ratings_total", "deal_value", "time_in_pipeline",
      "documents_verified_count", "contacts_count">>
CATEGORICAL_FEATURES == <<"business_type", "priority">>

\* the keys of the models dict
MODEL_NAMES == {"Dummy Classifier", "Logistic Regression", "LightGBM"}

\* the artifacts main writes
METRICS_OUTPUT_PATH == "model_metrics.csv"
ROC_PLOT_PATH == "roc_curve.png"
FEATURE_IMPORTANCE_PLOT_PATH == "lightgbm_feature_importance.png"
FEATURE_IMPORTANCE_CSV_PATH == "lightgbm_feature_importance.csv"
MODEL_OUTPUT_PATH == "lightgbm_model.pkl"

\* not-a-number, and the marker of a metric function that raised
NaN == 0 - 1
Raised == 0 - 2

\* metrics are in thousandths
METRIC_UNIT == 10 * 100

-----------------------------------------------------------------------------
(* Sequences *)

RECURSIVE SeqSum(_)
SeqSum(s) == IF s = <<>> THEN 0 ELSE s[1] + SeqSum(Tail(s))

RECURSIVE Flatten(_)
Flatten(ss) == IF ss = <<>> THEN <<>> ELSE ss[1] \o Flatten(Tail(ss))

Labels(rows) == [i \in 1..Len(rows) |-> rows[i].converted]

CountIn(s, v) == Cardinality({i \in 1..Len(s) : s[i] = v})

Sign(x) == IF x > 0 THEN 1 ELSE IF x < 0 THEN -1 ELSE 0

RECURSIVE IsqrtBetween(_, _, _)
IsqrtBetween(v, lo, hi) ==
    IF hi - lo <= 1 THEN lo
    ELSE LET mid == (lo + hi) \div 2
         IN IF mid * mid <= v THEN IsqrtBetween(v, mid, hi)
            ELSE IsqrtBetween(v, lo, mid)

Isqrt(v) == IsqrtBetween(v, 0, 46340)

-----------------------------------------------------------------------------
(* build_preprocessor: ColumnTransformer(StandardScaler, OneHotEncoder)     *)
(* numeric statistics are in tenths, transformed values in hundredths       *)

\* the lexicographic order OneHotEncoder sorts category strings by
CATEGORY_ORDER ==
    <<"Bakery", "Cafe", "Critical", "Deferred", "Florist", "Garage", "Gym",
      "High", "Hotel", "Laundry", "Low", "Medium", "Minor", "Normal", "Notary",
      "Pharmacy", "Rare", "Restaurant", "Retail", "Routine", "Services",
      "Trivial", "Urgent", "Vital">>

\* handle_unknown of build_one_hot_encoder
HANDLE_UNKNOWN == "ignore"

build_preprocessor ==
    [fitted |-> FALSE, n_samples_seen |-> 0, mean |-> <<>>, scale |-> <<>>,
     categories |-> <<>>]

ScalerMean(X, f) == (SeqSum(Column(X, f)) * 10) \div Len(X)

ScalerVar(X, f) ==
    LET m == ScalerMean(X, f)
    IN SeqSum([i \in 1..Len(X) |-> (10 * X[i][f] - m) * (10 * X[i][f] - m)]) \div Len(X)

\* a zero standard deviation is replaced by 1 (here: 1.0 in tenths)
ScalerScale(X, f) ==
    LET sd == Isqrt(ScalerVar(X, f)) IN IF sd = 0 THEN 10 ELSE sd

EncoderCategories(X, f) ==
    SelectSeq(CATEGORY_ORDER, LAMBDA c : \E i \in 1..Len(X) : X[i][f] = c)

FitFresh(X) ==
    [fitted |-> TRUE,
     n_samples_seen |-> Len(X),
     mean |-> [j \in 1..Len(NUMERIC_FEATURES) |-> ScalerMean(X, NUMERIC_FEATURES[j])],
     scale |-> [j \in 1..Len(NUMERIC_FEATURES) |-> ScalerScale(X, NUMERIC_FEATURES[j])],
     categories |-> [j \in 1..Len(CATEGORICAL_FEATURES) |->
                        EncoderCategories(X, CATEGORICAL_FEATURES[j])]]

\* a fit that keeps running totals across fits instead of starting anew
fit_preprocessor_running(prev, X) ==
    IF ~prev.fitted THEN FitFresh(X)
    ELSE [FitFresh(X) EXCEPT
            !.n_samples_seen = prev.n_samples_seen + Len(X),
            !.mean = [j \in 1..Len(NUMERIC_FEATURES) |->
                         prev.mean[j] + FitFresh(X).mean[j]]]

\* ColumnTransformer.fit: every fit replaces the whole fitted state
fit_preprocessor(prev, X) == FitFresh(X)

\* a transform that fits on the rows it is given
transform_state_refit(prep, X) == fit_preprocessor(prep, X)

\* ColumnTransformer.transform reads the fitted state and leaves it as it is
transform_state(prep, X) == prep

\* preprocessor.get_feature_names_out()
get_feature_names_out(prep) ==
    [j \in 1..Len(NUMERIC_FEATURES) |->
        [kind |-> "num", feature |-> NUMERIC_FEATURES[j], category |-> "", index |-> j]]
    \o Flatten([j \in 1..Len(CATEGORICAL_FEATURES) |->
        [k \in 1..Len(prep.categories[j]) |->
            [kind |-> "cat", feature |-> CATEGORICAL_FEATURES[j],
             category |-> prep.categories[j][k], index |-> j]]])

UnseenCategory(prep, row) ==
    \E j \in 1..Len(CATEGORICAL_FEATURES) :
        \A k \in 1..Len(prep.categories[j]) :
            prep.categories[j][k] # row[CATEGORICAL_FEATURES[j]]

\* OneHotEncoder.transform raises on an unknown category unless told to ignore it
transform_raises(prep, X) ==
    /\ HANDLE_UNKNOWN = "error"
    /\ \E i \in 1..Len(X) : UnseenCategory(prep, X[i])

TransformRow(prep, row) ==
    LET names == get_feature_names_out(prep)
    IN [j \in 1..Len(names) |->
          IF names[j].kind = "num"
          THEN ((10 * row[names[j].feature] - prep.mean[names[j].index]) * 100)
                  \div prep.scale[names[j].index]
          ELSE IF row[names[j].feature] = names[j].category THEN 100 ELSE 0]

transform(prep, X) == [i \in 1..Len(X) |-> TransformRow(prep, X[i])]

-----------------------------------------------------------------------------
(* The three estimators behind fit / predict / predict_proba.  Each stands   *)
(* for the library estimator the code configures: a deterministic learner    *)
(* whose fitted state is a function of the transformed training partition.   *)

\* the signed class-correlation of every transformed column
ClassWeights(Z, y) ==
    IF Z = <<>> THEN <<>>
    ELSE [j \in 1..Len(Z[1]) |->
            SeqSum([i \in 1..Len(Z) |-> (2 * y[i] - 1) * Z[i][j]])]

Classes(y) == {y[i] : i \in 1..Len(y)}

\* classifier.fit(Z, y)
fit_classifier(name, Z, y) ==
    LET w == ClassWeights(Z, y)
    IN [fitted |-> TRUE, classes |-> Classes(y),
        class_count |-> <<CountIn(y, 0), CountIn(y, 1)>>,
        coef |-> w,
        feature_importances |-> [j \in 1..Len(w) |-> Abs(w[j]) \div 100]]

unfitted_classifier ==
    [fitted |-> FALSE, classes |-> {}, class_count |-> <<0, 0>>, coef |-> <<>>,
     feature_importances |-> <<>>]

\* LogisticRegression.fit needs two classes
fit_raises(name, y) ==
    name = "Logistic Regression" /\ Cardinality(Classes(y)) < 2

Clamp(x, lo, hi) == IF x < lo THEN lo ELSE IF x > hi THEN hi ELSE x

LinearScore(clf, z) == SeqSum([j \in 1..Len(z) |-> clf.coef[j] * z[j]])

VoteScore(clf, z) == SeqSum([j \in 1..Len(z) |-> Sign(clf.coef[j]) * Sign(z[j])])

\* DummyClassifier(strategy="stratified", random_state=RANDOM_STATE): the i-th
\* row's class is drawn by the class prior from a stream seeded anew by every call
DummyDraw(clf, i) ==
    IF RngRaw(RANDOM_STATE, i) * (clf.class_count[1] + clf.class_count[2])
          >= clf.class_count[1] * RNG_M
    THEN 1 ELSE 0

\* predict_proba(Z)[:, 1], in thousandths
predict_proba_1(name, clf, Z) ==
    [i \in 1..Len(Z) |->
        CASE name = "Dummy Classifier" -> METRIC_UNIT * DummyDraw(clf, i)
          [] name = "Logistic Regression" ->
                Clamp(500 + LinearScore(clf, Z[i]) \div 100, 0, METRIC_UNIT)
          [] name = "LightGBM" ->
                IF Cardinality(clf.classes) < 2 THEN 0
                ELSE Clamp(500 + 100 * VoteScore(clf, Z[i]), 0, METRIC_UNIT)]

\* predict(Z): the more probable class; the only class when one was seen
predict(name, clf, Z) ==
    LET proba == predict_proba_1(name, clf, Z)
    IN [i \in 1..Len(Z) |->
          IF Cardinality(clf.classes) < 2 THEN CHOOSE c \in clf.classes : TRUE
          ELSE IF proba[i] > 500 THEN 1 ELSE 0]

\* DummyClassifier.predict_proba has one column per class seen in training,
\* so [:, 1] is out of range when training saw a single class
predict_proba_raises(name, clf) ==
    name = "Dummy Classifier" /\ Cardinality(clf.classes) < 2

-----------------------------------------------------------------------------
(* evaluate_model: the five metrics, in thousandths *)

TruePos(y, p) == Cardinality({i \in 1..Len(y) : y[i] = 1 /\ p[i] = 1})
FalsePos(y, p) == Cardinality({i \in 1..Len(y) : y[i] = 0 /\ p[i] = 1})
FalseNeg(y, p) == Cardinality({i \in 1..Len(y) : y[i] = 1 /\ p[i] = 0})

\* the value a ratio metric takes when its denominator is zero
ZERO_DIVISION == 0

Ratio(num, den) == IF den = 0 THEN ZERO_DIVISION ELSE (num * METRIC_UNIT) \div den

accuracy_score(y, p) ==
    (Cardinality({i \in 1..Len(y) : y[i] = p[i]}) * METRIC_UNIT) \div Len(y)

precision_score(y, p) == Ratio(TruePos(y, p), TruePos(y, p) + FalsePos(y, p))

recall_score(y, p) == Ratio(TruePos(y, p), TruePos(y, p) + FalseNeg(y, p))

f1_score(y, p) ==
    Ratio(2 * TruePos(y, p), 2 * TruePos(y, p) + FalsePos(y, p) + FalseNeg(y, p))

RocAucDefined(y) == Cardinality(Classes(y)) = 2

\* the area under the ROC curve: the share of (positive, negative) pairs ranked
\* correctly, a tie counting one half
RocAucValue(y, prob) ==
    LET pairs == {<<i, j>> \in (1..Len(y)) \X (1..Len(y)) : y[i] = 1 /\ y[j] = 0}
        won == Cardinality({q \in pairs : prob[q[1]] > prob[q[2]]})
        tied == Cardinality({q \in pairs : prob[q[1]] = prob[q[2]]})
    IN ((2 * won + tied) * METRIC_UNIT) \div (2 * Cardinality(pairs))

\* roc_auc_score(y_test, y_prob).  With a single class in y_test the score is
\* undefined: the library raises ValueError or, in later releases, warns and
\* returns NaN.
roc_auc_score(y, prob) ==
    IF RocAucDefined(y) THEN {RocAucValue(y, prob)} ELSE {Raised, NaN}

\* the metrics dict, given the value roc_auc_score returned
MetricsRecord(y, pred, auc) ==
    [accuracy |-> accuracy_score(y, pred),
     precision |-> precision_score(y, pred),
     recall |-> recall_score(y, pred),
     f1_score |-> f1_score(y, pred),
     roc_auc |-> auc]

RECURSIVE Descending(_)
Descending(S) ==
    IF S = {} THEN <<>>
    ELSE LET m == CHOOSE x \in S : \A z \in S : z <= x
         IN <<m>> \o Descending(S \ {m})

\* roc_curve(y_test, y_prob): the (false positives, true positives) counts at
\* every threshold, from the highest down, after the origin
roc_curve(y, prob) ==
    LET thresholds == Descending({prob[i] : i \in 1..Len(prob)})
    IN <<[fp |-> 0, tp |-> 0]>> \o
       [k \in 1..Len(thresholds) |->
          [fp |-> Cardinality({i \in 1..Len(y) : y[i] = 0 /\ prob[i] >= thresholds[k]}),
           tp |-> Cardinality({i \in 1..Len(y) : y[i] = 1 /\ prob[i] >= thresholds[k]})]]

-----------------------------------------------------------------------------
(* train_test_split(X, y, test_size, random_state, stratify=y) *)

NTest(n) == (n * TEST_SIZE + 99) \div 100
NTrain(n) == (n * (100 - TEST_SIZE)) \div 100

\* StratifiedShuffleSplit refuses a class with a single member and a partition
\* smaller than the number of classes
split_raises(y) ==
    \/ \E c \in Classes(y) : CountIn(y, c) < 2
    \/ NTrain(Len(y)) < Cardinality(Classes(y))
    \/ NTest(Len(y)) < Cardinality(Classes(y))

\* The test index sets a stratified shuffle can produce.  The training
\* partition takes of every class its proportional share rounded down, and the
\* rows still lacking go to the classes with the largest fractional parts
\* (equal parts are resolved by the shuffle); the test partition takes the rest.
\* Which rows of a class are drawn is a function of random_state that the
\* model leaves open.
Splits(y) ==
    LET n == Len(y)
        share(c) == CountIn(y, c) * NTrain(n)
    IN {T \in SUBSET (1..n) :
          /\ Cardinality(T) = NTest(n)
          /\ LET inTrain(c) == Cardinality({i \in (1..n) \ T : y[i] = c})
             IN /\ \A c \in Classes(y) :
                      /\ inTrain(c) >= share(c) \div n
                      /\ inTrain(c) <= share(c) \div n + 1
                /\ \A c, d \in Classes(y) :
                      (inTrain(c) > share(c) \div n /\ inTrain(d) = share(d) \div n)
                         => share(c) % n >= share(d) % n}

Rows(frame, I) ==
    LET idx == SelectSeq([i \in 1..Len(frame) |-> i], LAMBDA i : i \in I)
    IN [j \in 1..Len(idx) |-> frame[idx[j]]]

-----------------------------------------------------------------------------
(* load_dataset *)

MISSING_INPUT == "Dataset not found. Please run 01_generate_dataset.py before training."

path_exists_unchecked(file) == TRUE

path_exists(file) == file.exists

-----------------------------------------------------------------------------
(* plot_feature_importance *)

TOP_N == 20

RECURSIVE InsertDescending(_, _)
InsertDescending(sorted, r) ==
    IF sorted = <<>> THEN <<r>>
    ELSE IF sorted[1].importance >= r.importance
         THEN <<sorted[1]>> \o InsertDescending(Tail(sorted), r)
         ELSE <<r>> \o sorted

RECURSIVE sort_values(_)
sort_values(t) ==
    IF t = <<>> THEN <<>>
    ELSE InsertDescending(sort_values(SubSeq(t, 1, Len(t) - 1)), t[Len(t)])

head(t, n) == SubSeq(t, 1, IF Len(t) < n THEN Len(t) ELSE n)

feature_importance_table_top(prep, clf) ==
    LET names == get_feature_names_out(prep)
    IN head(sort_values([j \in 1..Len(names) |->
                           [feature |-> names[j],
                            importance |-> clf.feature_importances[j]]]), TOP_N)

feature_importance_table(prep, clf) ==
    LET names == get_feature_names_out(prep)
    IN sort_values([j \in 1..Len(names) |->
                      [feature |-> names[j], importance |-> clf.feature_importances[j]]])

-----------------------------------------------------------------------------
(* main *)

NoFiles == [metrics |-> <<>>, roc |-> <<>>, fi_plot |-> <<>>, fi_table |-> <<>>,
            model |-> <<>>]

DictSet_one_key(d, label, entry) ==
    IF d # <<>> THEN [i \in 1..Len(d) |-> IF i = 1 THEN entry ELSE d[i]]
    ELSE Append(d, entry)

\* roc_plot_data[label] = entry
DictSet(d, label, entry) ==
    IF \E i \in 1..Len(d) : d[i].label = label
    THEN [i \in 1..Len(d) |-> IF d[i].label = label THEN entry ELSE d[i]]
    ELSE Append(d, entry)

Fail(e) ==
    /\ tpc' = "failed"
    /\ error' = e

LoadDataset ==
    /\ tpc = "start"
    /\ IF ~path_exists(output_file)
       THEN Fail(MISSING_INPUT) /\ UNCHANGED train_df
       ELSE IF output_file = Absent
            THEN Fail("[Errno 2] No such file or directory") /\ UNCHANGED train_df
            ELSE train_df' = output_file.rows /\ tpc' = "loaded" /\ UNCHANGED error
    /\ UNCHANGED <<train, test, models, processed, preprocessor, classifiers, metrics_output,
                   roc_plot_data, feature_importance_df, written, files>>

Split ==
    /\ tpc = "loaded"
    /\ IF split_raises(Labels(train_df))
       THEN Fail("ValueError: stratified split") /\ UNCHANGED <<train, test>>
       ELSE /\ \E T \in Splits(Labels(train_df)) :
                  /\ test' = Rows(train_df, T)
                  /\ train' = Rows(train_df, (1..Len(train_df)) \ T)
            /\ tpc' = "build"
            /\ UNCHANGED error
    /\ UNCHANGED <<train_df, models, processed, preprocessor, classifiers, metrics_output,
                   roc_plot_data, feature_importance_df, written, files>>

BuildModels ==
    /\ tpc = "build"
    /\ preprocessor' = build_preprocessor
    /\ classifiers' = [m \in MODEL_NAMES |-> unfitted_classifier]
    /\ metrics_output' = <<>>
    /\ roc_plot_data' = <<>>
    /\ processed' = 0
    /\ tpc' = "fit"
    /\ UNCHANGED <<train_df, train, test, models, feature_importance_df, written, files,
                   error>>

\* pipeline.fit(X_train, y_train): the shared transform is fitted anew, then
\* the pipeline's own classifier on the transformed training partition
Fit ==
    /\ tpc = "fit"
    /\ LET name == models[processed + 1]
           fitted == fit_preprocessor(preprocessor, train)
       IN /\ preprocessor' = fitted
          /\ IF fit_raises(name, Labels(train))
             THEN Fail("ValueError: one class") /\ UNCHANGED classifiers
             ELSE /\ classifiers' =
                       [classifiers EXCEPT
                          ![name] = fit_classifier(name, transform(fitted, train),
                                                   Labels(train))]
                  /\ tpc' = "evaluate"
                  /\ UNCHANGED error
    /\ UNCHANGED <<train_df, train, test, models, processed, metrics_output, roc_plot_data,
                   feature_importance_df, written, files>>

\* evaluate_model(pipeline, X_test, y_test), roc_curve and the two appends
Evaluate ==
    /\ tpc = "evaluate"
    /\ LET name == models[processed + 1]
           clf == classifiers[name]
           y == Labels(test)
       IN IF transform_raises(preprocessor, test)
          THEN /\ Fail("ValueError: unknown category")
               /\ UNCHANGED <<preprocessor, metrics_output, roc_plot_data, processed>>
          ELSE LET used == transform_state(preprocessor, test)
                   Z == transform(used, test)
                   pred == predict(name, clf, Z)
                   prob == predict_proba_1(name, clf, Z)
               IN /\ preprocessor' = used
                  /\ IF predict_proba_raises(name, clf)
                     THEN /\ Fail("IndexError")
                          /\ UNCHANGED <<metrics_output, roc_plot_data, processed>>
                     ELSE \E auc \in roc_auc_score(y, prob) :
                            IF auc = Raised
                            THEN /\ Fail("ValueError: ROC AUC undefined")
                                 /\ UNCHANGED <<metrics_output, roc_plot_data, processed>>
                            ELSE /\ roc_plot_data' =
                                      DictSet(roc_plot_data, name,
                                              [label |-> name,
                                               curve |-> roc_curve(y, prob),
                                               auc |-> auc])
                                 /\ metrics_output' =
                                      Append(metrics_output,
                                             [model |-> name,
                                              metrics |-> MetricsRecord(y, pred, auc)])
                                 /\ processed' = processed + 1
                                 /\ tpc' = IF processed + 1 = Len(models)
                                           THEN "save_metrics" ELSE "fit"
                                 /\ UNCHANGED error
    /\ UNCHANGED <<train_df, train, test, models, classifiers, feature_importance_df,
                   written, files>>

SaveMetrics ==
    /\ tpc = "save_metrics"
    /\ written' = written \cup {METRICS_OUTPUT_PATH}
    /\ files' = [files EXCEPT !.metrics = metrics_output]
    /\ tpc' = "plot_roc"
    /\ UNCHANGED <<train_df, train, test, models, processed, preprocessor, classifiers,
                   metrics_output, roc_plot_data, feature_importance_df, error>>

PlotRocCurves ==
    /\ tpc = "plot_roc"
    /\ written' = written \cup {ROC_PLOT_PATH}
    /\ files' = [files EXCEPT !.roc = roc_plot_data]
    /\ tpc' = "plot_fi"
    /\ UNCHANGED <<train_df, train, test, models, processed, preprocessor, classifiers,
                   metrics_output, roc_plot_data, feature_importance_df, error>>

\* plot_feature_importance(models["LightGBM"]): the names come from the shared
\* transform, the importances from the LightGBM classifier
PlotFeatureImportance ==
    /\ tpc = "plot_fi"
    /\ LET clf == classifiers["LightGBM"]
       IN IF Len(get_feature_names_out(preprocessor)) # Len(clf.feature_importances)
          THEN /\ Fail("ValueError: arrays of different length")
               /\ UNCHANGED <<feature_importance_df, written, files>>
          ELSE /\ feature_importance_df' = feature_importance_table(preprocessor, clf)
               /\ written' = written \cup {FEATURE_IMPORTANCE_PLOT_PATH}
               /\ files' = [files EXCEPT
                              !.fi_plot = head(feature_importance_table(preprocessor, clf),
                                               TOP_N)]
               /\ tpc' = "save_fi"
               /\ UNCHANGED error
    /\ UNCHANGED <<train_df, train, test, models, processed, preprocessor, classifiers,
                   metrics_output, roc_plot_data>>

SaveFeatureImportance ==
    /\ tpc = "save_fi"
    /\ written' = written \cup {FEATURE_IMPORTANCE_CSV_PATH}
    /\ files' = [files EXCEPT !.fi_table = feature_importance_df]
    /\ tpc' = "dump"
    /\ UNCHANGED <<train_df, train, test, models, processed, preprocessor, classifiers,
                   metrics_output, roc_plot_data, feature_importance_df, error>>

\* joblib.dump(lightgbm_model, MODEL_OUTPUT_PATH): the pipeline holds the shared
\* transform and the LightGBM classifier
DumpModel ==
    /\ tpc = "dump"
    /\ written' = written \cup {MODEL_OUTPUT_PATH}
    /\ files' = [files EXCEPT
                   !.model = [preprocessor |-> preprocessor,
                              classifier |-> classifiers["LightGBM"]]]
    /\ tpc' = "done"
    /\ UNCHANGED <<train_df, train, test, models, processed, preprocessor, classifiers,
                   metrics_output, roc_plot_data, feature_importance_df, error>>

\* A library call of the step raises (the estimator reports a failure, an
\* output file cannot be written): nothing in main catches it.
StepRaises ==
    /\ tpc \in {"fit", "evaluate", "save_metrics", "plot_roc", "plot_fi", "save_fi",
                "dump"}
    /\ Fail("Exception")
    /\ UNCHANGED <<train_df, train, test, models, processed, preprocessor, classifiers,
                   metrics_output, roc_plot_data, feature_importance_df, written,
                   files>>

-----------------------------------------------------------------------------
(* The datasets the trainer is run on *)

MakeRow(bt, ra, urt, dv, pr, tip, dvc, cc, conv) ==
    [business_type |-> bt, rating |-> ra, user_ratings_total |-> urt,
     deal_value |-> dv, priority |-> pr, time_in_pipeline |-> tip,
     documents_verified_count |-> dvc, contacts_count |-> cc, converted |-> conv]

RowPool ==
    <<MakeRow("Restaurant", 45, 800, 900, "High", 40, 5, 3, 1),
      MakeRow("Retail", 32, 50, 300, "Low", 80, 1, 1, 0),
      MakeRow("Services", 40, 400, 500, "Medium", 20, 3, 2, 0),
      MakeRow("Restaurant", 38, 600, 700, "Medium", 50, 4, 4, 1)>>

\* every multiset of NumRows pool rows, as a file
PoolDatasets ==
    {[i \in 1..NumRows |-> RowPool[s[i]]] :
        s \in {t \in [1..NumRows -> 1..Len(RowPool)] :
                  \A i \in 1..(NumRows - 1) : t[i] <= t[i + 1]}}

\* a file whose every row holds a business type and a priority of its own
WIDE_TYPES ==
    <<"Bakery", "Cafe", "Florist", "Garage", "Gym", "Hotel", "Laundry", "Notary",
      "Pharmacy", "Restaurant">>
WIDE_PRIORITIES ==
    <<"Critical", "Deferred", "High", "Low", "Medium", "Minor", "Normal", "Rare",
      "Routine", "Urgent">>

WideDataset ==
    [i \in 1..Len(WIDE_TYPES) |->
        MakeRow(WIDE_TYPES[i], 30 + 2 * i, 90 * i, 1000 - 70 * i, WIDE_PRIORITIES[i],
                8 * i, i % 7, 1 + (i % 4), i % 2)]

Datasets == PoolDatasets \cup {WideDataset}

Orders(S) ==
    {p \in [1..Cardinality(S) -> S] : \A i, j \in 1..Cardinality(S) : p[i] = p[j] => i = j}

-----------------------------------------------------------------------------
(* evaluate_model applied to given test labels and model outputs *)

PrecisionUndefined(y, p) == TruePos(y, p) + FalsePos(y, p) = 0
RecallUndefined(y, p) == TruePos(y, p) + FalseNeg(y, p) = 0
F1Undefined(y, p) == 2 * TruePos(y, p) + FalsePos(y, p) + FalseNeg(y, p) = 0

ProbValues == {0, 500, METRIC_UNIT}

EvaluateModel ==
    /\ epc = "called"
    /\ \E auc \in roc_auc_score(y_test, y_prob) :
         IF auc = Raised
         THEN epc' = "raised" /\ UNCHANGED metrics
         ELSE epc' = "returned" /\ metrics' = MetricsRecord(y_test, y_pred, auc)
    /\ UNCHANGED <<y_test, y_pred, y_prob>>

-----------------------------------------------------------------------------
(* Initial states and specifications *)

GenIdle ==
    /\ gpc = "idle"
    /\ rng = 0
    /\ df = <<>>
    /\ conversion_probability = <<>>
    /\ runs = <<>>

LeadIdle ==
    /\ lpc = "off"
    /\ lead = None
    /\ deal_max = 0
    /\ urt_max = 0
    /\ lead_effects = 0
    /\ lead_noised = 0
    /\ lead_clipped = 0
    /\ lead_converted = 0

TrainIdle ==
    /\ tpc = "off"
    /\ train_df = <<>>
    /\ train = <<>>
    /\ test = <<>>
    /\ models = <<>>
    /\ processed = 0
    /\ preprocessor = build_preprocessor
    /\ classifiers = <<>>
    /\ metrics_output = <<>>
    /\ roc_plot_data = <<>>
    /\ feature_importance_df = <<>>
    /\ written = {}
    /\ files = NoFiles
    /\ error = None

NoMetrics ==
    [accuracy |-> 0, precision |-> 0, recall |-> 0, f1_score |-> 0, roc_auc |-> 0]

EvalIdle ==
    /\ epc = "off"
    /\ y_test = <<>>
    /\ y_pred = <<>>
    /\ y_prob = <<>>
    /\ metrics = NoMetrics

InitGen == GenIdle /\ output_file = Absent /\ LeadIdle /\ TrainIdle /\ EvalIdle

NextGen ==
    \/ (GenStart /\ UNCHANGED <<lead_vars, train_vars, eval_vars>>)
    \/ (GenerateBaseFeatures /\ UNCHANGED <<lead_vars, train_vars, eval_vars>>)
    \/ (EngineerProbability /\ UNCHANGED <<lead_vars, train_vars, eval_vars>>)
    \/ (AddNoise /\ UNCHANGED <<lead_vars, train_vars, eval_vars>>)
    \/ (ClipProbability /\ UNCHANGED <<lead_vars, train_vars, eval_vars>>)
    \/ (DrawConverted /\ UNCHANGED <<lead_vars, train_vars, eval_vars>>)
    \/ (SaveCsv /\ UNCHANGED <<lead_vars, train_vars, eval_vars>>)

SpecGen == InitGen /\ [][NextGen]_vars

InitLead ==
    /\ GenIdle
    /\ output_file = Absent
    /\ TrainIdle
    /\ EvalIdle
    /\ lpc = "sampled"
    /\ lead \in LeadValues
    /\ deal_max \in {d \in DealValues : d >= lead.deal_value /\ d > 0}
    /\ urt_max \in {u \in ReviewValues : u >= lead.user_ratings_total}
    /\ lead_effects = 0
    /\ lead_noised = 0
    /\ lead_clipped = 0
    /\ lead_converted = 0

NextLead ==
    \/ (LeadEffects /\ UNCHANGED <<gen_vars, train_vars, eval_vars>>)
    \/ (LeadNoise /\ UNCHANGED <<gen_vars, train_vars, eval_vars>>)
    \/ (LeadClip /\ UNCHANGED <<gen_vars, train_vars, eval_vars>>)
    \/ (LeadDraw /\ UNCHANGED <<gen_vars, train_vars, eval_vars>>)

SpecLead == InitLead /\ [][NextLead]_vars

\* main starts with the dataset file absent or holding a dataset.  The models
\* dict is iterated in insertion order; every order is started from, so that
\* what depends on the order shows.
InitTrain ==
    /\ GenIdle
    /\ LeadIdle
    /\ EvalIdle
    /\ output_file \in {Absent} \cup {CsvFile(d) : d \in Datasets}
    /\ tpc = "start"
    /\ train_df = <<>>
    /\ train = <<>>
    /\ test = <<>>
    /\ models \in Orders(MODEL_NAMES)
    /\ processed = 0
    /\ preprocessor = build_preprocessor
    /\ classifiers = <<>>
    /\ metrics_output = <<>>
    /\ roc_plot_data = <<>>
    /\ feature_importance_df = <<>>
    /\ written = {}
    /\ files = NoFiles
    /\ error = None

NextTrain ==
    \/ (LoadDataset /\ UNCHANGED <<gen_vars, lead_vars, eval_vars>>)
    \/ (Split /\ UNCHANGED <<gen_vars, lead_vars, eval_vars>>)
    \/ (BuildModels /\ UNCHANGED <<gen_vars, lead_vars, eval_vars>>)
    \/ (Fit /\ UNCHANGED <<gen_vars, lead_vars, eval_vars>>)
    \/ (Evaluate /\ UNCHANGED <<gen_vars, lead_vars, eval_vars>>)
    \/ (SaveMetrics /\ UNCHANGED <<gen_vars, lead_vars, eval_vars>>)
    \/ (PlotRocCurves /\ UNCHANGED <<gen_vars, lead_vars, eval_vars>>)
    \/ (PlotFeatureImportance /\ UNCHANGED <<gen_vars, lead_vars, eval_vars>>)
    \/ (SaveFeatureImportance /\ UNCHANGED <<gen_vars, lead_vars, eval_vars>>)
    \/ (DumpModel /\ UNCHANGED <<gen_vars, lead_vars, eval_vars>>)
    \/ (StepRaises /\ UNCHANGED <<gen_vars, lead_vars, eval_vars>>)

SpecTrain == InitTrain /\ [][NextTrain]_vars

InitEval ==
    /\ GenIdle
    /\ output_file = Absent
    /\ LeadIdle
    /\ TrainIdle
    /\ epc = "called"
    /\ y_test \in [1..EvalRows -> {0, 1}]
    /\ y_pred \in [1..EvalRows -> {0, 1}]
    /\ y_prob \in [1..EvalRows -> ProbValues]
    /\ metrics = NoMetrics

NextEval == EvaluateModel /\ UNCHANGED <<gen_vars, lead_vars, train_vars>>

SpecEval == InitEval /\ [][NextEval]_vars

-----------------------------------------------------------------------------
(* Properties of the generator *)

\* C1: the probability compared against the uniform draw is the clipped one,
\* which lies in [0.01, 0.99] whatever the features and the noise are, and the
\* label drawn from it is 0 or 1.
C1_ClippedProbabilityInRange ==
    /\ lpc \in {"clipped", "drawn"} =>
          /\ CLIP_LO <= lead_clipped
          /\ lead_clipped <= CLIP_HI
          /\ (lead_noised >= CLIP_LO /\ lead_noised <= CLIP_HI) => lead_clipped = lead_noised
    /\ lpc = "drawn" => lead_converted \in {0, 1}

\* a lead whose noise carried the probability above 0.99, clipped and drawn
C1_Witness ==
    /\ lpc = "drawn"
    /\ lead_noised > CLIP_HI
    /\ lead_clipped = CLIP_HI
    /\ lead_converted = 1

\* C2: two runs of the generator program write identical datasets.
C2_RunsIdentical ==
    Len(runs) >= 2 => runs[1] = runs[2]

\* C10: after the additive effects and before the noise the probability is at
\* least 0.06 and at most 0.90, so np.clip changes a probability only when
\* the noise carried it out of [0.01, 0.99].
C10_EffectsInsideClipInterval ==
    /\ lpc \in {"effects", "noised", "clipped", "drawn"} =>
          /\ lead_effects >= 60000
          /\ lead_effects <= 900000
          /\ np_clip(lead_effects, CLIP_LO, CLIP_HI) = lead_effects
    /\ (lpc \in {"clipped", "drawn"} /\ lead_clipped # lead_noised) =>
          /\ lead_noised # lead_effects
          /\ (lead_noised < CLIP_LO \/ lead_noised > CLIP_HI)

\* a lead near the smallest accumulated probability, which the noise carried
\* below 0.01 and np.clip brought back
C10_Witness ==
    /\ lpc = "clipped"
    /\ lead_effects < 70000
    /\ lead_noised < CLIP_LO
    /\ lead_clipped = CLIP_LO

-----------------------------------------------------------------------------
(* Properties of the trainer *)

NoWorkDone ==
    /\ train = <<>>
    /\ test = <<>>
    /\ ~preprocessor.fitted
    /\ classifiers = <<>>
    /\ metrics_output = <<>>
    /\ written = {}

\* C3: with the dataset file absent main ends in load_dataset's missing-input
\* error before the split, any fit and any artifact; with the file present
\* that error is not raised.
C3_MissingInputFailsFirst ==
    /\ (~output_file.exists /\ tpc # "start") =>
          /\ tpc = "failed"
          /\ error = MISSING_INPUT
          /\ NoWorkDone
    /\ output_file.exists => error # MISSING_INPUT

C3_Witness ==
    /\ ~output_file.exists
    /\ tpc = "failed"
    /\ error = MISSING_INPUT

\* C4: a run that failed has written no artifact.
C4_NoArtifactOnFailure ==
    tpc = "failed" => written = {}

TrainingState == FitFresh(train)

AfterAFit ==
    \/ tpc \in {"evaluate", "save_metrics", "plot_roc", "plot_fi", "save_fi", "dump",
                "done"}
    \/ (tpc \in {"fit", "failed"} /\ processed > 0)

\* C5: evaluation never fails on a category unseen in training, and at every
\* evaluation, after it and in the serialized model the shared transform holds
\* the statistics and vocabulary of the training partition alone.
C5_TransformFrozenOnTraining ==
    /\ error # "ValueError: unknown category"
    /\ AfterAFit => preprocessor = TrainingState
    /\ MODEL_OUTPUT_PATH \in written => files.model.preprocessor = TrainingState

\* a completed run whose test partition held a category the training
\* partition did not
C5_Witness ==
    /\ tpc = "done"
    /\ MODEL_OUTPUT_PATH \in written
    /\ \E i \in 1..Len(test) : UnseenCategory(preprocessor, test[i])

\* what a pipeline on its own, with a transform of its own, yields
AloneClassifier(name) ==
    fit_classifier(name, transform(TrainingState, train), Labels(train))

\* C6: whatever the order the models are processed in, the metric row and the
\* ROC entry a completed run holds and persists for a model are those the
\* model yields when it is processed alone.
C6_OrderInsensitive ==
    tpc = "done" =>
        /\ files.metrics = metrics_output
        /\ files.roc = roc_plot_data
        /\ \A i \in 1..Len(metrics_output) :
              LET name == metrics_output[i].model
                  row == metrics_output[i].metrics
                  y == Labels(test)
                  clf == AloneClassifier(name)
                  Z == transform(TrainingState, test)
                  pred == predict(name, clf, Z)
                  prob == predict_proba_1(name, clf, Z)
              IN /\ row.accuracy = accuracy_score(y, pred)
                 /\ row.precision = precision_score(y, pred)
                 /\ row.recall = recall_score(y, pred)
                 /\ row.f1_score = f1_score(y, pred)
                 /\ row.roc_auc \in roc_auc_score(y, prob)
                 /\ \E j \in 1..Len(roc_plot_data) :
                       /\ roc_plot_data[j].label = name
                       /\ roc_plot_data[j].curve = roc_curve(y, prob)
                       /\ roc_plot_data[j].auc = row.roc_auc

\* a completed run in the reverse of the order of the code, the models
\* scoring differently
C6_Witness ==
    /\ tpc = "done"
    /\ models = <<"LightGBM", "Logistic Regression", "Dummy Classifier">>
    /\ metrics_output[1].metrics # metrics_output[2].metrics
    /\ metrics_output[2].metrics # metrics_output[3].metrics

\* C8: after k iterations the metrics list and the ROC dict hold k entries, of
\* the first k models in processing order, each fitted and evaluated; a
\* completed run holds and persists one row and one curve per model.
C8_OneRowPerModel ==
    /\ Len(metrics_output) = processed
    /\ Len(roc_plot_data) = processed
    /\ \A i \in 1..Len(metrics_output) :
          /\ metrics_output[i].model = models[i]
          /\ classifiers[models[i]].fitted
          /\ roc_plot_data[i].label = models[i]
          /\ roc_plot_data[i].auc = metrics_output[i].metrics.roc_auc
    /\ tpc \in {"save_metrics", "plot_roc", "plot_fi", "save_fi", "dump", "done"} =>
          /\ processed = Cardinality(MODEL_NAMES)
          /\ {metrics_output[i].model : i \in 1..Len(metrics_output)} = MODEL_NAMES
    /\ METRICS_OUTPUT_PATH \in written =>
          /\ files.metrics = metrics_output
          /\ Len(files.metrics) = 3
    /\ ROC_PLOT_PATH \in written => Len(files.roc) = 3

C8_Witness ==
    /\ tpc = "done"
    /\ Len(files.metrics) = 3
    /\ Len(files.roc) = 3

CategoriesIn(rows, f) == {rows[i][f] : i \in 1..Len(rows)}

EncodedColumns(rows) ==
    Len(NUMERIC_FEATURES)
      + SeqSum([j \in 1..Len(CATEGORICAL_FEATURES) |->
                  Cardinality(CategoriesIn(rows, CATEGORICAL_FEATURES[j]))])

SortedDescending(t) ==
    \A i \in 1..(Len(t) - 1) : t[i].importance >= t[i + 1].importance

\* C9 as stated: the persisted table has one row per numeric feature and per
\* distinct category of the dataset.
C9_RowsCountDatasetCategories ==
    FEATURE_IMPORTANCE_CSV_PATH \in written =>
        Len(files.fi_table) = EncodedColumns(train_df)

\* C9: the persisted table has one row per numeric feature and per distinct
\* category of the training partition, sorted by importance descending; the
\* plot holds its first 20 rows, the table all of them.
C9_RowsCountTrainingCategories ==
    /\ FEATURE_IMPORTANCE_PLOT_PATH \in written =>
          /\ Len(feature_importance_df) = EncodedColumns(train)
          /\ SortedDescending(feature_importance_df)
          /\ files.fi_plot = head(feature_importance_df, 20)
          /\ Len(files.fi_plot) <= 20
    /\ FEATURE_IMPORTANCE_CSV_PATH \in written =>
          /\ files.fi_table = feature_importance_df
          /\ Len(files.fi_table) = EncodedColumns(train)
          /\ SortedDescending(files.fi_table)

\* a persisted table of more than 20 rows next to a plot of 20
C9_Witness ==
    /\ FEATURE_IMPORTANCE_CSV_PATH \in written
    /\ Len(files.fi_table) > 20
    /\ Len(files.fi_plot) = 20

-----------------------------------------------------------------------------
(* Properties of evaluate_model *)

\* C7: evaluate_model returns a metrics record, never an error, and every
\* metric that is undefined for the labels and predictions is zero in it.
C7_UndefinedMetricsAreZero ==
    epc \in {"returned", "raised"} =>
        /\ epc = "returned"
        /\ PrecisionUndefined(y_test, y_pred) => metrics.precision = 0
        /\ RecallUndefined(y_test, y_pred) => metrics.recall = 0
        /\ F1Undefined(y_test, y_pred) => metrics.f1_score = 0
        /\ ~RocAucDefined(y_test) => metrics.roc_auc = 0

====
